---------------------------- MODULE Spec2Model ----------------------------
(***************************************************************************)
(* Launch routing of configs/bio_rl_trainer.py and configs/biorl_trainer.py *)
(* (wcarvalho/human-sf): main dispatches on FLAGS.parallel to run_single    *)
(* (one in-process run) or run_many (an sbatch array job or a ray pool).    *)
(*                                                                         *)
(* Representation.  A python dict is a TLA+ function from keys to values;   *)
(* every value is written as a string ("32", "True", "flat_usfa").  A key   *)
(* of a search space is the tuple of its dot-separated components:          *)
(* "env.respawn" is <<"env", "respawn">> and "seed" is <<"seed">>.  Keys of *)
(* the agent and environment kwargs are plain strings.  A python list is a  *)
(* sequence, so python position p is TLA+ position p + 1.                   *)
(***************************************************************************)
EXTENDS Integers, Sequences, FiniteSets, TLC

VARIABLES
  file,                 \* which trainer script runs
  FLAGS,                \* the absl flags of the invocation
  pc,                   \* position of the control flow
  state,                \* LaunchRouter state
  error,                \* the exception that ended the invocation, "" if none
  applied,              \* the override steps run_single has carried out
  agent_config_kwargs,  \* run_single's agent kwargs
  env_kwargs,           \* run_single's environment kwargs
  folder,               \* run_single's log_dir
  num_actors,           \* run_single's num_actors
  run_distributed,      \* run_single's run_distributed
  wandb_init_kwargs,    \* run_single's wandb kwargs
  handed,               \* the keyword arguments of each train_single call
  built,                \* what setup_experiment_inputs constructed, one per call
  experiments_run,      \* calls of the external run_experiment
  sweeps,               \* calls of sweep that returned a space
  submitted,            \* task counts of the sbatch array submissions
  unit,                 \* ray pool: status of each unit of work
  raised,               \* ray pool: the units whose trial raised
  overall               \* ray pool: status reported when the pool drains

vars == <<file, FLAGS, pc, state, error, applied, agent_config_kwargs,
          env_kwargs, folder, num_actors, run_distributed, wandb_init_kwargs,
          handed, built, experiments_run, sweeps, submitted, unit, raised,
          overall>>

-----------------------------------------------------------------------------
(* Bounds of the model *)

\* entries of the config file
NumEntries == 3

\* actors of the ray pool
PoolSize == 2

-----------------------------------------------------------------------------
(* python dict helpers *)

EmptyDict == <<>>

\* dict(k=v)
Single(k, v) == [x \in {k} |-> v]

\* d.update(other) with the keys of d winning: the mutation of Update
UpdateKeepsOld(d, other) ==
  [k \in DOMAIN d \cup DOMAIN other |-> IF k \in DOMAIN d THEN d[k] ELSE other[k]]

\* d.update(other): the keys of other win
Update(d, other) ==
  [k \in DOMAIN d \cup DOMAIN other |-> IF k \in DOMAIN other THEN other[k] ELSE d[k]]

\* d.get(k, default)
Get(d, k, default) == IF k \in DOMAIN d THEN d[k] ELSE default

-----------------------------------------------------------------------------
(* The two scripts *)

Files == {"bio_rl_trainer", "biorl_trainer"}

\* the agent name setup_experiment_inputs accepts
SupportedAgent(f) == IF f = "bio_rl_trainer" THEN "q_learning" ELSE "qlearning"

\* what run_single puts into agent_config_kwargs under FLAGS.debug
DebugAgentDefaults(f) ==
  IF f = "bio_rl_trainer"
    THEN [k \in {"samples_per_insert", "min_replay_size"} |->
            IF k = "samples_per_insert" THEN "1" ELSE "100"]
    ELSE EmptyDict

\* the searches sweep knows
KnownSearches(f) ==
  IF f = "bio_rl_trainer" THEN {"flat", "objects"} ELSE {"qlearning"}

\* the spaces sweep returns: a list of grids, each grid a list of
\* <<key, candidate values>> in declaration order
Space(f, search) ==
  IF f = "bio_rl_trainer" /\ search = "flat" THEN
    << << << <<"agent">>, <<"flat_usfa">> >>,
          << <<"seed">>, <<"1">> >>,
          << <<"env", "train_task_option">>, <<"0">> >>,
          << <<"env", "transfer_task_option">>, <<"0">> >>,
          << <<"env", "respawn">>, <<"True", "False">> >>,
          << <<"eval_task_support">>, <<"eval">> >>,
          << <<"importance_sampling_exponent">>, <<"0">> >>,
          << <<"batch_size">>, <<"32", "16">> >>,
          << <<"trace_length">>, <<"20", "40">> >>,
          << <<"group">>, <<"flat-4-speed">> >> >> >>
  ELSE IF f = "bio_rl_trainer" /\ search = "objects" THEN
    << << << <<"seed">>, <<"5", "6", "7", "8">> >>,
          << <<"agent">>, <<"object_usfa">> >> >> >>
  ELSE
    << << << <<"agent">>, <<"qlearning">> >>,
          << <<"seed">>, <<"1">> >>,
          << <<"env", "level">>,
             <<"BabyAI-GoToRedBallNoDists-v0", "BabyAI-GoToObjS6-v1">> >> >> >>

\* sweep with the final raise dropped: the mutation of sweep
sweepNeverRaises(f, search) ==
  [ok |-> TRUE,
   space |-> IF search \in KnownSearches(f) THEN Space(f, search)
             ELSE Space(f, CHOOSE s \in KnownSearches(f) : TRUE)]

\* sweep(search): the space, or NotImplementedError(search)
sweep(f, search) ==
  IF search \in KnownSearches(f)
    THEN [ok |-> TRUE, space |-> Space(f, search)]
    ELSE [ok |-> FALSE, space |-> <<>>]

-----------------------------------------------------------------------------
(* lib.parallel: expansion and merge (ConfigExpander, OverrideMerger) *)

RECURSIVE ExpandGrid(_)
\* the cross product of one grid, the last-declared parameter varying fastest
ExpandGrid(params) ==
  IF params = <<>> THEN << EmptyDict >>
  ELSE LET key  == params[1][1]
           vals == params[1][2]
           rest == ExpandGrid(Tail(params))
           n    == Len(rest)
       IN [p \in 1..(Len(vals) * n) |->
             Update(rest[((p - 1) % n) + 1],
                    Single(key, vals[((p - 1) \div n) + 1]))]

RECURSIVE get_all_configurations(_)
\* the grids expanded one by one and concatenated
get_all_configurations(spaces) ==
  IF spaces = <<>> THEN <<>>
  ELSE ExpandGrid(spaces[1]) \o get_all_configurations(Tail(spaces))

\* keys that are telemetry only
Neither == { <<"group">>, <<"label">> }

\* get_agent_env_configs(config)[0]: "agent.x" with the prefix stripped and
\* every unprefixed key; setup_experiment_inputs reads the variant from the
\* key "agent" of this mapping, so the key stays in it
AgentSide(config) ==
  LET ks == {k \in DOMAIN config :
               \/ Len(k) = 2 /\ k[1] = "agent"
               \/ Len(k) = 1 /\ k \notin Neither}
  IN [name \in {k[Len(k)] : k \in ks} |->
        config[CHOOSE k \in ks : k[Len(k)] = name]]

\* get_agent_env_configs(config)[1]: "env.x" with the prefix stripped, and seed
EnvSide(config) ==
  LET ks == {k \in DOMAIN config :
               \/ Len(k) = 2 /\ k[1] = "env"
               \/ k = <<"seed">>}
  IN [name \in {k[Len(k)] : k \in ks} |->
        config[CHOOSE k \in ks : k[Len(k)] = name]]


-----------------------------------------------------------------------------
(* The config file: utils.load_config returns a list of pre-merged entries *)

\* entry number i of the file (python position i - 1)
MakeEntry(i) ==
  [agent_config |->
     IF i % 2 = 0
       THEN [k \in {"agent", "seed", "samples_per_insert"} |->
               CASE k = "agent" -> "q_learning"
                 [] k = "seed" -> ToString(i)
                 [] OTHER -> "8"]
       ELSE [k \in {"agent", "seed"} |->
               IF k = "agent" THEN "qlearning" ELSE ToString(i)],
   env_config |->
     [k \in {"level", "object_options"} |->
        IF k = "level" THEN ToString(i) ELSE "True"],
   folder |-> <<"config_folder", ToString(i)>>,
   num_actors |-> i,
   run_distributed |-> (i % 3 = 0),
   wandb_group |-> "group" \o ToString(i),
   wandb_name |-> "name" \o ToString(i),
   wandb_project |-> "project" \o ToString(i),
   wandb_entity |-> "entity" \o ToString(i),
   use_wandb |-> (i % 2 = 1)]

\* utils.load_config(FLAGS.config_file)
load_config == [i \in 1..NumEntries |-> MakeEntry(i)]

\* configs[config_idx] without the "- 1": the mutation of ListPosition
ListPositionNoShift(config_idx, n) ==
  IF config_idx >= 0 /\ config_idx < n THEN config_idx + 1
  ELSE IF config_idx < 0 /\ config_idx >= -n THEN config_idx + n + 1
  ELSE 0

\* configs[config_idx - 1] on a list of n items: the TLA+ position read, python
\* counting a negative index from the end; 0 stands for IndexError
ListPosition(config_idx, n) ==
  LET p == config_idx - 1
  IN IF p >= 0 /\ p < n THEN p + 1
     ELSE IF p < 0 /\ p >= -n THEN p + n + 1
     ELSE 0

-----------------------------------------------------------------------------
(* Pieces of run_single, train_single and main *)

\* main with 'sbatch' left out of the tuple: the mutation of IsManyMode
IsManyModeRayOnly(parallel) == parallel \in {"ray"}

\* main: FLAGS.parallel in ('ray', 'sbatch')
IsManyMode(parallel) == parallel \in {"ray", "sbatch"}

\* the guard without the subprocess test: the mutation of UseFirstRecord
UseFirstRecordDebugOnly(F) == F.debug

\* run_single: FLAGS.debug and not FLAGS.subprocess
UseFirstRecord(F) == F.debug /\ ~F.subprocess

\* configs[-1]: the mutation of FirstRecord
LastRecord(configs) == configs[Len(configs)]

\* run_single: configs[0]
FirstRecord(configs) == configs[1]

\* setup_wandb_init_kwargs()
setup_wandb_init_kwargs(F) ==
  IF ~F.use_wandb THEN EmptyDict
  ELSE [k \in {"project", "entity", "notes", "name", "group", "save_code"} |->
          CASE k = "project" -> "FLAGS.wandb_project"
            [] k = "entity" -> "FLAGS.wandb_entity"
            [] k = "notes" -> "FLAGS.wandb_notes"
            [] k = "name" -> "FLAGS.wandb_name"
            [] k = "group" -> F.search
            [] OTHER -> "False"]

\* the wandb kwargs after the config-file branch of run_single
WandbOfEntry(kwargs, config) ==
  IF ~config.use_wandb THEN EmptyDict
  ELSE Update(kwargs,
         [k \in {"group", "name", "project", "entity"} |->
            CASE k = "group" -> config.wandb_group
              [] k = "name" -> config.wandb_name
              [] k = "project" -> config.wandb_project
              [] OTHER -> config.wandb_entity])

\* run_single's folder before the config file: FLAGS.folder and RL_RESULTS_DIR
\* unset, FLAGS.make_path at its default True
DefaultFolder == <<"/tmp/rl_results", "rl_results", "date", "hourminute">>

\* agent_config_kwargs.get('agent', 'q_learning'): the mutation of GetAgent
GetAgentDefaulted(kwargs) == Get(kwargs, "agent", "q_learning")

\* setup_experiment_inputs: agent_config_kwargs.get('agent', '')
GetAgent(kwargs) == Get(kwargs, "agent", "")

\* Config(**config_kwargs) with 'agent' popped first: the mutation of ConfigFields
ConfigFieldsWithoutAgent(config_kwargs) ==
  [k \in DOMAIN config_kwargs \ {"agent"} |-> config_kwargs[k]]

\* setup_experiment_inputs: the fields Config(**config_kwargs) is built from
ConfigFields(config_kwargs) == config_kwargs

\* setup_experiment_inputs: the environment kwargs the factory is bound to
FinalEnvKwargs(f, kwargs) ==
  IF f = "bio_rl_trainer"
    THEN Update(kwargs, Single("object_options", "False"))
    ELSE kwargs

\* run_single calling train_single right after the defaults: the mutation of
\* AfterDefaults
AfterDefaultsCall == "call"

\* run_single: what follows the default settings
AfterDefaults == "override"

\* an exception leaves main: the invocation is over
Fail(e) ==
  /\ pc' = "failed"
  /\ state' = "Failed"
  /\ error' = e

-----------------------------------------------------------------------------
(* Initial states: one invocation of a script with its flags *)

\* the values of --search tried: the known searches and the flag's default
Searches(f) == KnownSearches(f) \cup {"default"}

\* run_many reads neither config_file, config_idx nor subprocess, so those
\* flags keep their defaults outside the local mode; config_idx is read only
\* with a config file
FlagSets(f) ==
  { F \in [parallel : {"none", "sbatch", "ray", "local"},
           debug : BOOLEAN,
           subprocess : BOOLEAN,
           config_file : {"", "configs.pkl"},
           config_idx : (-NumEntries)..(NumEntries + 1),
           search : Searches(f),
           use_wandb : BOOLEAN,
           run_distributed : BOOLEAN] :
      /\ F.parallel # "none" => F.config_file = "" /\ ~F.subprocess
      /\ F.config_file = "" => F.config_idx = 1 }

Init ==
  /\ file \in Files
  /\ FLAGS \in FlagSets(file)
  /\ pc = "main"
  /\ state = "Unconfigured"
  /\ error = ""
  /\ applied = {}
  /\ agent_config_kwargs = EmptyDict
  /\ env_kwargs = EmptyDict
  /\ folder = <<>>
  /\ num_actors = 0
  /\ run_distributed = FALSE
  /\ wandb_init_kwargs = EmptyDict
  /\ handed = <<>>
  /\ built = <<>>
  /\ experiments_run = 0
  /\ sweeps = 0
  /\ submitted = <<>>
  /\ unit = <<>>
  /\ raised = {}
  /\ overall = "pending"

localVars == <<applied, agent_config_kwargs, env_kwargs, folder, num_actors,
               run_distributed, wandb_init_kwargs>>
trainVars == <<handed, built, experiments_run>>
manyVars == <<submitted, unit, raised, overall>>

-----------------------------------------------------------------------------
(* main *)

main ==
  /\ pc = "main"
  /\ \/ /\ FLAGS.parallel \notin {"ray", "sbatch", "none"}
        /\ Fail("AssertionError")
     \/ /\ FLAGS.parallel \in {"ray", "sbatch", "none"}
        /\ pc' = IF IsManyMode(FLAGS.parallel) THEN "run_many" ELSE "run_single"
        /\ UNCHANGED <<state, error>>
  /\ UNCHANGED <<file, FLAGS, localVars, trainVars, sweeps, manyVars>>

-----------------------------------------------------------------------------
(* run_single *)

\* the default settings
run_single_defaults ==
  /\ pc = "run_single"
  /\ agent_config_kwargs' =
       IF FLAGS.debug THEN Update(EmptyDict, DebugAgentDefaults(file))
       ELSE EmptyDict
  /\ env_kwargs' = EmptyDict
  /\ num_actors' = 1
  /\ run_distributed' = FLAGS.run_distributed
  /\ wandb_init_kwargs' = setup_wandb_init_kwargs(FLAGS)
  /\ folder' = DefaultFolder
  /\ applied' = applied \cup {"defaults"}
  /\ pc' = AfterDefaults
  /\ UNCHANGED <<file, FLAGS, state, error, trainVars, sweeps, manyVars>>

\* override with config settings
run_single_config_file ==
  /\ pc = "override"
  /\ \/ /\ FLAGS.config_file = ""
        /\ pc' = "first_record"
        /\ UNCHANGED <<state, error, localVars>>
     \/ /\ FLAGS.config_file # ""
        /\ ListPosition(FLAGS.config_idx, Len(load_config)) = 0
        /\ Fail("IndexError")
        /\ UNCHANGED localVars
     \/ /\ FLAGS.config_file # ""
        /\ ListPosition(FLAGS.config_idx, Len(load_config)) # 0
        /\ LET config == load_config[ListPosition(FLAGS.config_idx, Len(load_config))]
           IN /\ agent_config_kwargs' = Update(agent_config_kwargs, config.agent_config)
              /\ env_kwargs' = Update(env_kwargs, config.env_config)
              /\ folder' = config.folder
              /\ num_actors' = config.num_actors
              /\ run_distributed' = config.run_distributed
              /\ wandb_init_kwargs' = WandbOfEntry(wandb_init_kwargs, config)
        /\ applied' = applied \cup {"config_file"}
        /\ pc' = "first_record"
        /\ UNCHANGED <<state, error>>
  /\ UNCHANGED <<file, FLAGS, trainVars, sweeps, manyVars>>

\* the first configuration of the search, in debug mode
run_single_first_record ==
  /\ pc = "first_record"
  /\ \/ /\ ~UseFirstRecord(FLAGS)
        /\ pc' = "call"
        /\ UNCHANGED <<state, error, localVars, sweeps>>
     \/ /\ UseFirstRecord(FLAGS)
        /\ ~sweep(file, FLAGS.search).ok
        /\ Fail("NotImplementedError: search")
        /\ UNCHANGED <<localVars, sweeps>>
     \/ /\ UseFirstRecord(FLAGS)
        /\ sweep(file, FLAGS.search).ok
        /\ LET configs == get_all_configurations(sweep(file, FLAGS.search).space)
               first == FirstRecord(configs)
           IN /\ agent_config_kwargs' = Update(agent_config_kwargs, AgentSide(first))
              /\ env_kwargs' = Update(env_kwargs, EnvSide(first))
        /\ sweeps' = sweeps + 1
        /\ applied' = applied \cup {"first_record"}
        /\ pc' = "call"
        /\ UNCHANGED <<state, error, folder, num_actors, run_distributed,
                       wandb_init_kwargs>>
  /\ UNCHANGED <<file, FLAGS, trainVars, manyVars>>

\* the call of train_single
run_single_call ==
  /\ pc = "call"
  /\ handed' = Append(handed,
       [wandb_init_kwargs |-> wandb_init_kwargs,
        env_kwargs |-> env_kwargs,
        agent_config_kwargs |-> agent_config_kwargs,
        log_dir |-> folder,
        num_actors |-> num_actors,
        run_distributed |-> run_distributed,
        applied |-> applied])
  /\ pc' = "setup_experiment_inputs"
  /\ UNCHANGED <<file, FLAGS, state, error, localVars, built, experiments_run,
                 sweeps, manyVars>>

-----------------------------------------------------------------------------
(* train_single *)

\* train_single's first call: the agent config and the environment factory
setup_experiment_inputs ==
  /\ pc = "setup_experiment_inputs"
  /\ LET args == handed[Len(handed)]
         agent == GetAgent(args.agent_config_kwargs)
     IN \/ /\ agent = ""
           /\ Fail("AssertionError: please set agent")
           /\ UNCHANGED built
        \/ /\ agent # ""
           /\ agent # SupportedAgent(file)
           /\ Fail("NotImplementedError: agent")
           /\ UNCHANGED built
        \/ /\ agent = SupportedAgent(file)
           /\ built' = Append(built,
                [agent |-> agent,
                 agent_config |-> ConfigFields(args.agent_config_kwargs),
                 final_env_kwargs |-> FinalEnvKwargs(file, args.env_kwargs)])
           /\ pc' = "run_experiment"
           /\ UNCHANGED <<state, error>>
  /\ UNCHANGED <<file, FLAGS, localVars, handed, experiments_run, sweeps, manyVars>>

\* the rest of train_single: the experiment is built and run, train_single,
\* run_single and main return
train_single ==
  /\ pc = "run_experiment"
  /\ \/ /\ handed[Len(handed)].run_distributed
        /\ Fail("NotImplementedError: distributed not implemented")
        /\ UNCHANGED experiments_run
     \/ /\ ~handed[Len(handed)].run_distributed
        /\ experiments_run' = experiments_run + 1
        /\ \/ /\ pc' = "done"
              /\ state' = "LocalSelected"
              /\ UNCHANGED error
           \/ Fail("run_experiment raised")
  /\ UNCHANGED <<file, FLAGS, localVars, handed, built, sweeps, manyVars>>

-----------------------------------------------------------------------------
(* run_many, and lib.parallel's run_sbatch and run_ray *)

\* run_sbatch: one array job, one task per configuration
run_sbatch(configs) ==
  /\ submitted' = Append(submitted, Len(configs))
  /\ state' = "ClusterSubmitted"
  /\ pc' = "done"
  /\ UNCHANGED <<error, unit, raised, overall>>

\* run_ray: every configuration is queued as one unit of work of the pool
run_ray(configs) ==
  /\ unit' = [i \in 1..Len(configs) |-> "queued"]
  /\ state' = "ActorPoolSubmitted"
  /\ pc' = "pool"
  /\ UNCHANGED <<error, submitted, raised, overall>>

run_many ==
  /\ pc = "run_many"
  /\ \/ /\ FLAGS.debug
        /\ Fail("AssertionError: only run debug if not running many things in parallel")
        /\ UNCHANGED <<sweeps, manyVars>>
     \/ /\ ~FLAGS.debug
        /\ ~sweep(file, FLAGS.search).ok
        /\ Fail("NotImplementedError: search")
        /\ UNCHANGED <<sweeps, manyVars>>
     \/ /\ ~FLAGS.debug
        /\ sweep(file, FLAGS.search).ok
        /\ sweeps' = sweeps + 1
        /\ LET configs == get_all_configurations(sweep(file, FLAGS.search).space)
           IN \/ /\ FLAGS.parallel = "ray"
                 /\ run_ray(configs)
              \/ /\ FLAGS.parallel = "sbatch"
                 /\ run_sbatch(configs)
              \/ /\ Fail("SubmissionError")
                 /\ UNCHANGED manyVars
  /\ UNCHANGED <<file, FLAGS, localVars, trainVars>>

\* the units the pool is running
Running == {i \in DOMAIN unit : unit[i] = "running"}

\* a free actor takes a queued unit
UnitStart(i) ==
  /\ pc = "pool"
  /\ unit[i] = "queued"
  /\ Cardinality(Running) < PoolSize
  /\ unit' = [unit EXCEPT ![i] = "running"]
  /\ UNCHANGED <<file, FLAGS, pc, state, error, localVars, trainVars, sweeps,
                 submitted, raised, overall>>

\* a unit's trial returns
UnitReturns(i) ==
  /\ pc = "pool"
  /\ unit[i] = "running"
  /\ unit' = [unit EXCEPT ![i] = "success"]
  /\ UNCHANGED <<file, FLAGS, pc, state, error, localVars, trainVars, sweeps,
                 submitted, raised, overall>>

\* a pool that gives up its queue when a unit raises: the mutation of
\* AfterFailure
AfterFailureCancels(u, i) ==
  [j \in DOMAIN u |-> IF j = i THEN "UnitFailure"
                      ELSE IF u[j] = "queued" THEN "cancelled" ELSE u[j]]

\* the pool's units after unit i raised: the failure is recorded against i
\* and the other units are left as they are
AfterFailure(u, i) == [u EXCEPT ![i] = "UnitFailure"]

\* a unit's trial raises
UnitRaises(i) ==
  /\ pc = "pool"
  /\ unit[i] = "running"
  /\ raised' = raised \cup {i}
  /\ unit' = AfterFailure(unit, i)
  /\ UNCHANGED <<file, FLAGS, pc, state, error, localVars, trainVars, sweeps,
                 submitted, overall>>

\* the pool has drained: the outcomes are aggregated and reported
PoolDrains ==
  /\ pc = "pool"
  /\ \A i \in DOMAIN unit : unit[i] \notin {"queued", "running"}
  /\ overall' = IF \E i \in DOMAIN unit : unit[i] # "success"
                  THEN "failed" ELSE "success"
  /\ pc' = "done"
  /\ UNCHANGED <<file, FLAGS, state, error, localVars, trainVars, sweeps,
                 submitted, unit, raised>>

-----------------------------------------------------------------------------

Next ==
  \/ main
  \/ run_single_defaults
  \/ run_single_config_file
  \/ run_single_first_record
  \/ run_single_call
  \/ setup_experiment_inputs
  \/ train_single
  \/ run_many
  \/ \E i \in DOMAIN unit : UnitStart(i)
  \/ \E i \in DOMAIN unit : UnitReturns(i)
  \/ \E i \in DOMAIN unit : UnitRaises(i)
  \/ PoolDrains

Spec == Init /\ [][Next]_vars

-----------------------------------------------------------------------------
(* Vocabulary of the properties *)

Finished == pc \in {"done", "failed"}

UnknownSearch == "NotImplementedError: search"

\* the invocation reads a config file with a task index inside 1..N
IndexInRange ==
  /\ FLAGS.parallel = "none"
  /\ FLAGS.config_file # ""
  /\ FLAGS.config_idx \in 1..NumEntries

\* entry t - 1 of the loaded sequence, for the 1-based task index t
EntryOfTask == MakeEntry(FLAGS.config_idx)

\* record 0 of the expanded search: every parameter of the first grid at its
\* first candidate
RecordZero ==
  LET grid == Space(file, FLAGS.search)[1]
  IN [k \in {grid[j][1] : j \in DOMAIN grid} |->
        (grid[CHOOSE j \in DOMAIN grid : grid[j][1] = k])[2][1]]

\* the debug-mode first-record selection is in force
FirstRecordActive == FLAGS.debug /\ ~FLAGS.subprocess

\* d agrees with r on every key of r
Carries(d, r) == \A k \in DOMAIN r : k \in DOMAIN d /\ d[k] = r[k]

\* the telemetry identifiers of a config-file entry
TelemetryOf(config, kwargs) ==
  IF config.use_wandb
    THEN /\ {"group", "name", "project", "entity"} \subseteq DOMAIN kwargs
         /\ kwargs["group"] = config.wandb_group
         /\ kwargs["name"] = config.wandb_name
         /\ kwargs["project"] = config.wandb_project
         /\ kwargs["entity"] = config.wandb_entity
    ELSE DOMAIN kwargs = {}

-----------------------------------------------------------------------------
(* C1 *)

C1Paths ==
  /\ state \in {"Unconfigured", "LocalSelected", "ClusterSubmitted",
                "ActorPoolSubmitted", "Failed"}
  /\ FLAGS.parallel = "none" =>
       /\ state \in {"Unconfigured", "LocalSelected", "Failed"}
       /\ submitted = <<>> /\ unit = <<>>
       /\ pc # "main" => pc = "run_single" \/ "defaults" \in applied
  /\ FLAGS.parallel = "sbatch" =>
       /\ state \in {"Unconfigured", "ClusterSubmitted", "Failed"}
       /\ handed = <<>> /\ applied = {} /\ unit = <<>>
  /\ FLAGS.parallel = "ray" =>
       /\ state \in {"Unconfigured", "ActorPoolSubmitted", "Failed"}
       /\ handed = <<>> /\ applied = {} /\ submitted = <<>>
  /\ FLAGS.parallel \notin {"none", "sbatch", "ray"} =>
       /\ pc # "main" => state = "Failed"
       /\ state \in {"Unconfigured", "Failed"}
       /\ handed = <<>> /\ applied = {} /\ submitted = <<>> /\ unit = <<>>
       /\ sweeps = 0

\* C1: main selects exactly one dispatch strategy from FLAGS.parallel: 'none'
\* runs run_single and submits nothing, 'sbatch' only submits the array job,
\* 'ray' only fills the actor pool, any other value fails with nothing run or
\* submitted; and a router state other than Unconfigured, once entered, is
\* never left.
C1_OneStrategy ==
  /\ []C1Paths
  /\ [][state # "Unconfigured" => state' = state]_vars

C1_Witness ==
  /\ FLAGS.parallel = "sbatch"
  /\ pc = "done"
  /\ state = "ClusterSubmitted"
  /\ Len(submitted) = 1

-----------------------------------------------------------------------------
(* C2 *)

\* what every train_single call gets from the entry besides the two kwargs
EntryRest(args) ==
  /\ args.log_dir = EntryOfTask.folder
  /\ args.num_actors = EntryOfTask.num_actors
  /\ args.run_distributed = EntryOfTask.run_distributed
  /\ TelemetryOf(EntryOfTask, args.wandb_init_kwargs)

-----------------------------------------------------------------------------
(* C3 *)

\* the kwargs run_single holds when no record of the search was merged
NoRecordAgentKwargs ==
  LET base == IF FLAGS.debug THEN DebugAgentDefaults(file) ELSE EmptyDict
  IN IF FLAGS.config_file = "" THEN base
     ELSE Update(base, EntryOfTask.agent_config)

NoRecordEnvKwargs ==
  IF FLAGS.config_file = "" THEN EmptyDict ELSE EntryOfTask.env_config

-----------------------------------------------------------------------------
(* C4 *)

\* C4: in Local mode with no config file and debug unset the invocation ends
\* in Failed on the missing-selection error (the assertion 'please set
\* agent'), and no experiment is built or run.
C4_MissingIndex ==
  (FLAGS.parallel = "none" /\ FLAGS.config_file = "" /\ ~FLAGS.debug) =>
    /\ experiments_run = 0
    /\ built = <<>>
    /\ pc # "done"
    /\ state # "LocalSelected"
    /\ Finished => state = "Failed" /\ error = "AssertionError: please set agent"

C4_Witness ==
  /\ FLAGS.parallel = "none" /\ FLAGS.config_file = "" /\ ~FLAGS.debug
  /\ pc = "failed"
  /\ error = "AssertionError: please set agent"
  /\ Len(handed) = 1

-----------------------------------------------------------------------------
(* C5 *)

NothingDispatched ==
  /\ handed = <<>>
  /\ submitted = <<>>
  /\ unit = <<>>
  /\ experiments_run = 0

\* C5 as stated: in every dispatch mode and for every debug and config-file
\* input, an unknown search fails with UnknownSearch before anything is
\* submitted and before train_single is invoked.
C5_Original ==
  (FLAGS.parallel \in {"none", "sbatch", "ray"}
     /\ FLAGS.search \notin KnownSearches(file)) =>
    /\ NothingDispatched
    /\ Finished => state = "Failed" /\ error = UnknownSearch

\* C5, amended: an unknown search fails with UnknownSearch where the search
\* is expanded, which is in the sbatch and ray modes with debug unset and in
\* Local mode with debug set and subprocess unset (past a valid config
\* index); it fails there before anything is submitted and before
\* train_single is invoked.  In the sbatch and ray modes with debug set the
\* debug assertion fails first, again with nothing submitted.  A Local run
\* without the first-record selection never resolves the search.
C5_Amended ==
  (FLAGS.parallel \in {"none", "sbatch", "ray"}
     /\ FLAGS.search \notin KnownSearches(file)) =>
    /\ sweeps = 0 /\ submitted = <<>> /\ unit = <<>>
    /\ (FLAGS.parallel # "none" \/ FirstRecordActive) =>
         /\ NothingDispatched
         /\ Finished => state = "Failed"
    /\ (FLAGS.parallel # "none" /\ ~FLAGS.debug /\ Finished) =>
         error = UnknownSearch
    /\ (FLAGS.parallel # "none" /\ FLAGS.debug /\ Finished) =>
         error = "AssertionError: only run debug if not running many things in parallel"
    /\ (FLAGS.parallel = "none" /\ FirstRecordActive /\ Finished) =>
         error = IF FLAGS.config_file # "" /\ ListPosition(FLAGS.config_idx, NumEntries) = 0
                   THEN "IndexError" ELSE UnknownSearch
    /\ (FLAGS.parallel = "none" /\ ~FirstRecordActive /\ Finished) =>
         error # UnknownSearch

C5_Witness ==
  /\ FLAGS.parallel = "ray"
  /\ FLAGS.search \notin KnownSearches(file)
  /\ pc = "failed"
  /\ error = UnknownSearch
  /\ NothingDispatched

-----------------------------------------------------------------------------
(* C6 *)

\* the record the run selected last: record 0 of the search when the
\* first-record selection is in force, else the config-file entry
SelectedAgent ==
  IF FirstRecordActive THEN AgentSide(RecordZero)
  ELSE IF FLAGS.config_file # "" THEN EntryOfTask.agent_config
  ELSE EmptyDict

SelectedEnv ==
  IF FirstRecordActive THEN EnvSide(RecordZero)
  ELSE IF FLAGS.config_file # "" THEN EntryOfTask.env_config
  ELSE EmptyDict

\* the in-code defaults of the agent kwargs
CodeDefaults == IF FLAGS.debug THEN DebugAgentDefaults(file) ELSE EmptyDict

\* the keys some record of the run specifies for the agent
SpecifiedAgentKeys ==
  (IF FirstRecordActive THEN DOMAIN AgentSide(RecordZero) ELSE {})
    \cup (IF FLAGS.config_file # "" THEN DOMAIN EntryOfTask.agent_config ELSE {})

LocalInRange == FLAGS.parallel = "none" /\ (FLAGS.config_file # "" => IndexInRange)

\* C6 as stated: every key the selected record specifies reaches the built
\* agent config and the environment factory with the record's value, and
\* every default key the record leaves out keeps its default.
C6_Original ==
  LocalInRange =>
    \A c \in DOMAIN built :
      /\ Carries(built[c].agent_config, SelectedAgent)
      /\ Carries(built[c].final_env_kwargs, SelectedEnv)
      /\ \A k \in DOMAIN CodeDefaults \ SpecifiedAgentKeys :
           /\ k \in DOMAIN built[c].agent_config
           /\ built[c].agent_config[k] = CodeDefaults[k]

\* C6, amended: every key the selected record specifies reaches train_single
\* with the record's value, every default key no record specifies keeps its
\* default, and the agent config is built from exactly those agent kwargs;
\* the environment factory gets the environment kwargs with the record's
\* values too, except that bio_rl_trainer.py then forces object_options to
\* False.
C6_Amended ==
  LocalInRange =>
    /\ \A c \in DOMAIN handed :
         /\ Carries(handed[c].agent_config_kwargs, SelectedAgent)
         /\ Carries(handed[c].env_kwargs, SelectedEnv)
         /\ \A k \in DOMAIN CodeDefaults \ SpecifiedAgentKeys :
              /\ k \in DOMAIN handed[c].agent_config_kwargs
              /\ handed[c].agent_config_kwargs[k] = CodeDefaults[k]
    /\ \A c \in DOMAIN built :
         /\ built[c].agent_config = handed[c].agent_config_kwargs
         /\ \A k \in DOMAIN handed[c].env_kwargs :
              /\ k \in DOMAIN built[c].final_env_kwargs
              /\ (k # "object_options" \/ file = "biorl_trainer") =>
                   built[c].final_env_kwargs[k] = handed[c].env_kwargs[k]
         /\ file = "bio_rl_trainer" =>
              /\ "object_options" \in DOMAIN built[c].final_env_kwargs
              /\ built[c].final_env_kwargs["object_options"] = "False"

C6_Witness ==
  /\ file = "bio_rl_trainer"
  /\ IndexInRange
  /\ FLAGS.debug /\ FLAGS.subprocess
  /\ Len(built) = 1
  /\ built[1].agent_config["samples_per_insert"] = "8"
  /\ built[1].agent_config["min_replay_size"] = "100"
  /\ built[1].final_env_kwargs["level"] = "2"

-----------------------------------------------------------------------------
(* C7 *)

\* the first grid of the search, and the records past record 0
FirstGrid == Space(file, FLAGS.search)[1]

\* the value the handed kwargs hold for search key k
HandedFor(args, k) ==
  IF Len(k) = 2 /\ k[1] = "env" THEN Get(args.env_kwargs, k[2], "absent")
  ELSE Get(args.agent_config_kwargs, k[Len(k)], "absent")

-----------------------------------------------------------------------------
(* C8 *)

\* C8 as stated: the fields the agent configuration object is constructed
\* from never contain the key agent.
C8_Original ==
  \A c \in DOMAIN built : "agent" \notin DOMAIN built[c].agent_config

\* C8, amended: the key agent selects the algorithm variant and is also
\* passed on as a configuration field: the fields every agent configuration
\* object is constructed from contain the key agent, holding the variant.
C8_Amended ==
  \A c \in DOMAIN built :
    /\ "agent" \in DOMAIN built[c].agent_config
    /\ built[c].agent_config["agent"] = built[c].agent
    /\ built[c].agent = SupportedAgent(file)

C8_Witness ==
  /\ file = "biorl_trainer"
  /\ FLAGS.config_file = ""
  /\ FLAGS.debug /\ ~FLAGS.subprocess
  /\ Len(built) = 1
  /\ built[1].agent_config["agent"] = "qlearning"

-----------------------------------------------------------------------------
(* C9 *)

\* C9: in the actor pool a unit that raises is recorded as UnitFailure
\* against its own index and cancels no other unit: at most PoolSize units
\* run at a time, every unit ends as success or UnitFailure by its own
\* outcome, and the status reported once the pool has drained is failed
\* exactly when some unit raised.
C9_Isolation ==
  /\ Cardinality(Running) <= PoolSize
  /\ raised \subseteq DOMAIN unit
  /\ \A i \in DOMAIN unit :
       /\ unit[i] \in {"queued", "running", "success", "UnitFailure"}
       /\ unit[i] = "UnitFailure" <=> i \in raised
  /\ overall # "pending" <=> (pc = "done" /\ state = "ActorPoolSubmitted")
  /\ overall # "pending" =>
       /\ \A i \in DOMAIN unit : unit[i] \in {"success", "UnitFailure"}
       /\ overall = IF raised = {} THEN "success" ELSE "failed"

C9_Witness ==
  /\ FLAGS.parallel = "ray"
  /\ Len(unit) = 4
  /\ pc = "done"
  /\ raised = {2}
  /\ unit = <<"success", "UnitFailure", "success", "success">>
  /\ overall = "failed"

-----------------------------------------------------------------------------
(* C10 *)

\* C10 as stated: every invocation of run_single invokes train_single
\* exactly once.
C10_Original ==
  (FLAGS.parallel = "none" /\ Finished) => Len(handed) = 1

\* C10, amended: run_single invokes train_single at most once, and exactly
\* once unless record selection fails first (a config index out of range, an
\* unknown search); it is invoked only after the defaults, the config-file
\* entry and the first record have been applied wherever they apply, and the
\* configuration does not change after the call; one agent config is built
\* and the experiment run at most once.
C10_Amended ==
  /\ Len(handed) <= 1
  /\ Len(built) <= Len(handed)
  /\ experiments_run <= Len(built)
  /\ (FLAGS.parallel = "none" /\ Finished
        /\ error \notin {"IndexError", UnknownSearch}) => Len(handed) = 1
  /\ \A c \in DOMAIN handed :
       /\ "defaults" \in handed[c].applied
       /\ FLAGS.config_file # "" => "config_file" \in handed[c].applied
       /\ (FLAGS.debug /\ ~FLAGS.subprocess) => "first_record" \in handed[c].applied
       /\ handed[c].agent_config_kwargs = agent_config_kwargs
       /\ handed[c].env_kwargs = env_kwargs
       /\ handed[c].log_dir = folder
       /\ handed[c].applied = applied

C10_Witness ==
  /\ FLAGS.parallel = "none"
  /\ pc = "done"
  /\ Len(handed) = 1
  /\ handed[1].applied = {"defaults", "config_file", "first_record"}
  /\ experiments_run = 1

-----------------------------------------------------------------------------
(* C11 *)

\* C11: a task index outside 1..N (0, a negative value, a value above N)
\* selects no entry of the config file: the config-file overrides are never
\* applied, train_single is not invoked and the invocation ends in Failed.
C11_OutOfRange ==
  (FLAGS.parallel = "none" /\ FLAGS.config_file # ""
     /\ FLAGS.config_idx \notin 1..NumEntries) =>
    /\ "config_file" \notin applied
    /\ handed = <<>>
    /\ experiments_run = 0
    /\ state \in {"Unconfigured", "Failed"}
    /\ Finished => state = "Failed"

=============================================================================
